---- MODULE Spec2Model ----
(***************************************************************************)
(* Model of deepdrivemd/applications/openmm_simulation/app.py:             *)
(* MDSimulationApplication (the cached engine slot, the cached structure   *)
(* and topology paths, the files of the run directories) under repeated    *)
(* calls of run, and analyze_simulation as a function of a trajectory.     *)
(*                                                                         *)
(* Every run works in a fresh working directory (run-<uuid>, line 301);    *)
(* Application.copy_to_workdir and the settings type live outside this     *)
(* file and follow the specification's description of them.  The choice    *)
(* of the compute platform and the rigid-body alignment are left out: no   *)
(* property below reads them.                                              *)
(*                                                                         *)
(* Times are exact rationals [num, den] where the code holds floats.       *)
(* The files are a function from paths [dir, name] to contents; a          *)
(* directory is a number                                                   *)
(* (0 holds the caller's input files, d > 0 is the working directory of    *)
(* the d-th run).                                                          *)
(***************************************************************************)
EXTENDS Integers, Sequences, FiniteSets, TLC

\* Number of run invocations explored on one manager.
MaxRuns == 3

\* Picoseconds per nanosecond: the unit conversion openmm.unit applies when a
\* quantity in nanoseconds is divided by one in picoseconds.
PsPerNs == 1000

\* Width of the zero-padded frame number in the restart structure file name.
FrameDigits == 6

\* Base of the decimal digits of the formatted frame number.
DecimalBase == 10

-----------------------------------------------------------------------------
(* Values *)

Rat(n, d) == [num |-> n, den |-> d]

\* A quantity with a time unit, as openmm.unit builds it: value * unit.
Quantity(r, unit) == [value |-> r, unit |-> unit]

\* The value of a time quantity in picoseconds.
InPicoseconds(q) ==
    IF q.unit = "ns" THEN Rat(q.value.num * PsPerNs, q.value.den) ELSE q.value

\* Quantity / Quantity of the same dimension: a dimensionless number.
QuantityDiv(a, b) ==
    LET x == InPicoseconds(a)
        y == InPicoseconds(b)
    IN  Rat(x.num * y.den, x.den * y.num)

\* Python int() of a non-negative number: truncation.
IntOf(r) == r.num \div r.den

NoContent == [kind |-> "none", src |-> "", run |-> 0, n |-> 0]
Structure(src) == [kind |-> "struct", src |-> src, run |-> 0, n |-> 0]
FrameStructure(run, k) == [kind |-> "struct", src |-> "frame", run |-> run, n |-> k]
Topology(src) == [kind |-> "top", src |-> src, run |-> 0, n |-> 0]
Trajectory(run, nframes) == [kind |-> "traj", src |-> "dcd", run |-> run, n |-> nframes]
ArrayOf(what, run, len) == [kind |-> "array", src |-> what, run |-> run, n |-> len]
LogOf(run) == [kind |-> "log", src |-> "sim", run |-> run, n |-> 0]

\* A file name: base text, the run directory named in it (-1: none), the
\* digits of a frame number (<<>>: none), and the extension.
Name(base, run, digits, ext) ==
    [base |-> base, run |-> run, digits |-> digits, ext |-> ext]
PlainName(base, ext) == Name(base, -1, <<>>, ext)

Path(dir, name) == [dir |-> dir, name |-> name]
NonePath == Path(-1, PlainName("", ""))

\* The file system: a function from the paths that exist to their contents.
Exists(files, p) == p \in DOMAIN files
ContentAt(files, p) == IF Exists(files, p) THEN files[p] ELSE NoContent

\* Writing a file replaces whatever was at its path.
WriteFile(files, p, content) ==
    [q \in DOMAIN files \cup {p} |-> IF q = p THEN content ELSE files[q]]

\* The files the callers supply: a good structure, a structure that cannot be
\* parsed, and a topology.
InputDir == 0
InputFiles ==
    (Path(InputDir, PlainName("A", "pdb")) :> Structure("A"))
    @@ (Path(InputDir, PlainName("Bad", "pdb")) :> Structure("bad"))
    @@ (Path(InputDir, PlainName("sys", "prmtop")) :> Topology("T"))

Parsable(content) == content.kind # "none" /\ content.src # "bad"

\* The engine slot: None, an engine, or no attribute at all.
NoneSim == [state |-> "None", id |-> 0, pdb_path |-> NonePath,
            pdb |-> NoContent, top |-> NoContent, currentStep |-> 0]
DeletedSim == [NoneSim EXCEPT !.state = "Deleted"]
Engine(id, pdb_path, pdb, top) ==
    [state |-> "Engine", id |-> id, pdb_path |-> pdb_path,
     pdb |-> pdb, top |-> top, currentStep |-> 0]
IsEngine(s) == s.state = "Engine"

-----------------------------------------------------------------------------
(* Settings *)

SupportedBarostats == {"MonteCarloBarostat", "MonteCarloAnisotropicBarostat"}
DefaultBarostat == "MonteCarloBarostat"

\* dt_ps, report_interval_ps (picoseconds), simulation_length_ns (nanoseconds).
ScenarioTiming ==
    [dt_ps |-> Rat(2, 1000), report_interval_ps |-> Rat(2, 1000),
     simulation_length_ns |-> Rat(1, 100)]
ShortTiming ==
    [dt_ps |-> Rat(2, 1000), report_interval_ps |-> Rat(4, 1000),
     simulation_length_ns |-> Rat(16, 1000000)]
Timings == {ScenarioTiming, ShortTiming}

Settings ==
    [solvent_type : {"implicit", "explicit"},
     explicit_barostat : {"MonteCarloBarostat", "BogusBarostat"},
     timing : Timings,
     cutoff_angstrom : {2}]

VARIABLES
    config,     \* the manager's settings, fixed at construction
    sim,        \* self.sim
    pdb_file,   \* self.pdb_file
    top_file,   \* self.top_file
    fs,         \* the files of all directories
    workdir,    \* the working directory of the latest run
    last,       \* what the latest run did
    traj,       \* a trajectory handed to analyze_simulation
    analysis    \* what analyze_simulation returned for it

vars == <<config, sim, pdb_file, top_file, fs, workdir, last, traj, analysis>>

-----------------------------------------------------------------------------
(* The manager's operations.  Each takes and returns a record
   [sim, pdb_file, top_file, fs, err]: the fields of self, the files, and
   the exception raised ("none" when the call returns). *)

Raise(st, e) == [st EXCEPT !.err = e]

\* Application.copy_to_workdir: None stays None; a file is copied into the
\* working directory under its own name and the copy's path is returned.
copy_to_workdir(files, p, wd) ==
    IF p = NonePath THEN [err |-> "none", path |-> NonePath, fs |-> files]
    ELSE IF ~Exists(files, p)
         THEN [err |-> "FileNotFoundError", path |-> NonePath, fs |-> files]
         ELSE [err |-> "none", path |-> Path(wd, p.name),
               fs |-> WriteFile(files, Path(wd, p.name), ContentAt(files, p))]

\* _configure_amber_explicit: the barostat is chosen by name.
configure_amber_explicit(explicit_barostat) ==
    IF explicit_barostat \in SupportedBarostats THEN "none" ELSE "ValueError"

\* configure_simulation: builds an engine from the structure and topology
\* files, or raises.  The positions are read from pdb_file in every branch.
configure_simulation(files, pdb, top, solvent_type, explicit_barostat, id) ==
    LET built == Engine(id, pdb, ContentAt(files, pdb), ContentAt(files, top))
        positions ==
            IF Parsable(ContentAt(files, pdb))
            THEN [err |-> "none", sim |-> built]
            ELSE [err |-> "ParseError", sim |-> NoneSim]
    IN  IF solvent_type = "implicit"
        THEN positions
        ELSE IF solvent_type # "explicit" \/ top = NonePath
             THEN [err |-> "AssertionError", sim |-> NoneSim]
             ELSE IF configure_amber_explicit(explicit_barostat) # "none"
                  THEN [err |-> configure_amber_explicit(explicit_barostat),
                        sim |-> NoneSim]
                  ELSE positions

\* init_simulation: "del self.sim" removes the attribute, then the new
\* engine is assigned if configure_simulation returns.  Reading self.sim
\* once the attribute is gone raises AttributeError.
init_simulation(st, pdb, top, id) ==
    IF st.sim.state = "Deleted" THEN Raise(st, "AttributeError")
    ELSE LET dropped == IF st.sim.state # "None"
                        THEN [st EXCEPT !.sim = DeletedSim] ELSE st
             r == configure_simulation(dropped.fs, pdb, top,
                      config.solvent_type, DefaultBarostat, id)
         IN  IF r.err # "none" THEN Raise(dropped, r.err)
             ELSE [dropped EXCEPT !.sim = r.sim]

\* init_continue_simulation without the check that an engine is cached.
init_continue_simulation_unchecked(st, wd) ==
    IF st.pdb_file = NonePath THEN Raise(st, "AssertionError")
    ELSE LET c1 == copy_to_workdir(st.fs, st.pdb_file, wd)
             c2 == copy_to_workdir(c1.fs, st.top_file, wd)
         IN  IF c1.err # "none" THEN Raise(st, c1.err)
             ELSE IF c2.err # "none"
                  THEN Raise([st EXCEPT !.pdb_file = c1.path, !.fs = c1.fs], c2.err)
                  ELSE [st EXCEPT !.pdb_file = c1.path, !.top_file = c2.path,
                                  !.fs = c2.fs]

\* init_continue_simulation keeping the cached paths instead of copying.
init_continue_simulation_without_copy(st, wd) ==
    IF st.sim.state = "Deleted" THEN Raise(st, "AttributeError")
    ELSE IF st.sim.state = "None" THEN Raise(st, "RuntimeError")
    ELSE IF st.pdb_file = NonePath THEN Raise(st, "AssertionError")
    ELSE st

\* init_continue_simulation
init_continue_simulation(st, wd) ==
    IF st.sim.state = "Deleted" THEN Raise(st, "AttributeError")
    ELSE IF st.sim.state = "None" THEN Raise(st, "RuntimeError")
    ELSE IF st.pdb_file = NonePath THEN Raise(st, "AssertionError")
    ELSE LET c1 == copy_to_workdir(st.fs, st.pdb_file, wd)
             c2 == copy_to_workdir(c1.fs, st.top_file, wd)
         IN  IF c1.err # "none" THEN Raise(st, c1.err)
             ELSE IF c2.err # "none"
                  THEN Raise([st EXCEPT !.pdb_file = c1.path, !.fs = c1.fs], c2.err)
                  ELSE [st EXCEPT !.pdb_file = c1.path, !.top_file = c2.path,
                                  !.fs = c2.fs]

\* init_simulation_from_pdb
init_simulation_from_pdb(st, start, wd) ==
    LET c1 == copy_to_workdir(st.fs, start.pdb_file, wd)
        c2 == copy_to_workdir(c1.fs, start.top_file, wd)
    IN  IF c1.err # "none" THEN Raise(st, c1.err)
        ELSE IF c2.err # "none"
             THEN Raise([st EXCEPT !.pdb_file = c1.path, !.fs = c1.fs], c2.err)
             ELSE IF c1.path = NonePath
                  THEN Raise([st EXCEPT !.pdb_file = c1.path, !.top_file = c2.path,
                                        !.fs = c2.fs], "AssertionError")
                  ELSE init_simulation(
                           [st EXCEPT !.pdb_file = c1.path, !.top_file = c2.path,
                                      !.fs = c2.fs],
                           c1.path, c2.path, wd)

\* sim_dir.glob("*.<ext>")
glob(files, dir, ext) ==
    {p \in DOMAIN files : p.dir = dir /\ p.name.ext = ext}

\* The decimal digits of k, most significant first, at least `width` long.
RECURSIVE ZeroPad(_, _)
ZeroPad(k, width) ==
    IF width <= 1 /\ k < DecimalBase THEN <<k>>
    ELSE Append(ZeroPad(k \div DecimalBase, width - 1), k % DecimalBase)

\* f"{old_pdb_file.parent.name}_frame{frame:06}.pdb"
pdb_name(old_pdb_file, frame) ==
    Name("_frame", old_pdb_file.dir, ZeroPad(frame, FrameDigits), "pdb")

\* write_pdb_frame: loads structure and trajectory, seeks to the frame and
\* writes the atoms at that frame.
write_pdb_frame(files, pdb, dcd, frame, output_pdb_file) ==
    LET trajectory == ContentAt(files, dcd)
    IN  IF ~Parsable(ContentAt(files, pdb)) \/ trajectory.n = 0
        THEN [err |-> "ParseError", fs |-> files]
        ELSE IF frame >= trajectory.n
             THEN [err |-> "IndexError", fs |-> files]
             ELSE [err |-> "none",
                   fs |-> WriteFile(files, output_pdb_file,
                                    FrameStructure(trajectory.run, frame))]

\* init_simulation_from_restart building the engine from the source
\* directory's structure file instead of the extracted frame.
init_simulation_from_restart_with_old_pdb(st, start, wd) ==
    LET pdbs == glob(st.fs, start.sim_dir, "pdb")
        dcds == glob(st.fs, start.sim_dir, "dcd")
        prmtops == glob(st.fs, start.sim_dir, "prmtop")
    IN  IF pdbs = {} \/ dcds = {} THEN Raise(st, "StopIteration")
        ELSE
          LET old_pdb_file == CHOOSE p \in pdbs : TRUE
              dcd_file == CHOOSE p \in dcds : TRUE
              found_top == IF prmtops # {} THEN CHOOSE p \in prmtops : TRUE
                           ELSE NonePath
              c == copy_to_workdir(st.fs, found_top, wd)
              new_pdb == Path(wd, pdb_name(old_pdb_file, start.sim_frame))
              st1 == [st EXCEPT !.top_file = c.path, !.fs = c.fs,
                                !.pdb_file = new_pdb]
              w == write_pdb_frame(st1.fs, old_pdb_file, dcd_file,
                                   start.sim_frame, new_pdb)
          IN  IF c.err # "none" THEN Raise(st, c.err)
              ELSE IF w.err # "none" THEN Raise(st1, w.err)
              ELSE init_simulation([st1 EXCEPT !.fs = w.fs], old_pdb_file,
                                   c.path, wd)

\* init_simulation_from_restart
init_simulation_from_restart(st, start, wd) ==
    LET pdbs == glob(st.fs, start.sim_dir, "pdb")
        dcds == glob(st.fs, start.sim_dir, "dcd")
        tops == glob(st.fs, start.sim_dir, "top")
        prmtops == glob(st.fs, start.sim_dir, "prmtop")
    IN  IF pdbs = {} \/ dcds = {} THEN Raise(st, "StopIteration")
        ELSE
          LET old_pdb_file == CHOOSE p \in pdbs : TRUE
              dcd_file == CHOOSE p \in dcds : TRUE
              found_top == IF tops # {} THEN CHOOSE p \in tops : TRUE
                           ELSE IF prmtops # {}
                                THEN CHOOSE p \in prmtops : TRUE
                                ELSE NonePath
              c == copy_to_workdir(st.fs, found_top, wd)
              new_pdb == Path(wd, pdb_name(old_pdb_file, start.sim_frame))
              st1 == [st EXCEPT !.top_file = c.path, !.fs = c.fs,
                                !.pdb_file = new_pdb]
              w == write_pdb_frame(st1.fs, old_pdb_file, dcd_file,
                                   start.sim_frame, new_pdb)
          IN  IF c.err # "none" THEN Raise(st, c.err)
              ELSE IF w.err # "none" THEN Raise(st1, w.err)
              ELSE init_simulation([st1 EXCEPT !.fs = w.fs], new_pdb, c.path, wd)

\* initialize_run: dispatch over the three start conditions.
initialize_run(st, start, wd) ==
    IF start.kind = "Continue" THEN init_continue_simulation(st, wd)
    ELSE IF start.kind = "FromPDB" THEN init_simulation_from_pdb(st, start, wd)
    ELSE init_simulation_from_restart(st, start, wd)

-----------------------------------------------------------------------------
(* run *)

\* report_steps = int(report_interval_ps / dt_ps)
report_steps(cfg) ==
    IntOf(QuantityDiv(Quantity(cfg.timing.report_interval_ps, "ps"),
                      Quantity(cfg.timing.dt_ps, "ps")))

\* nsteps dividing the two numbers without converting nanoseconds.
nsteps_without_units(cfg) ==
    IntOf(Rat(cfg.timing.simulation_length_ns.num * cfg.timing.dt_ps.den,
              cfg.timing.simulation_length_ns.den * cfg.timing.dt_ps.num))

\* nsteps = int(simulation_length_ns / dt_ps)
nsteps(cfg) ==
    IntOf(QuantityDiv(Quantity(cfg.timing.simulation_length_ns, "ns"),
                      Quantity(cfg.timing.dt_ps, "ps")))

\* Frames a DCDReporter of interval r writes while the engine goes from step
\* c to step c + n: one at every step that is a multiple of r.
ReportedFrames(c, n, r) == ((c + n) \div r) - (c \div r)

TrajFile(wd) == Path(wd, PlainName("sim", "dcd"))
LogFile(wd) == Path(wd, PlainName("sim", "log"))
ContactMapFile(wd) == Path(wd, PlainName("contact_map", "npy"))
RmsdFile(wd) == Path(wd, PlainName("rmsd", "npy"))

\* What the environment decides in one run: whether the engine's stepping,
\* the analysis or one of the two saves raises.
Outcomes == {"ok", "step_fail", "analyze_fail", "save_contact_map_fail",
             "save_rmsd_fail"}

\* Number of entries analyze_simulation returns for each of its two lists:
\* one per frame of the trajectory; loading an unreadable structure or an
\* empty trajectory raises.
analysis_length(files, pdb, traj_file) ==
    IF ~Parsable(ContentAt(files, pdb)) \/ ContentAt(files, traj_file).n = 0
    THEN [err |-> "ParseError", len |-> 0]
    ELSE [err |-> "none", len |-> ContentAt(files, traj_file).n]

\* The part of run after initialize_run returned: reporters, stepping,
\* analysis and the two saves.  `done` is the number of steps executed
\* before the engine raises, when it does.
step_analyze_save(st, wd, outcome, done) ==
    IF ~IsEngine(st.sim)
    THEN [sim |-> st.sim, fs |-> st.fs, err |-> "AttributeError",
          steps |-> 0, frames |-> 0]
    ELSE
      LET executed == IF outcome = "step_fail" THEN done ELSE nsteps(config)
          frames == ReportedFrames(st.sim.currentStep, executed,
                                   report_steps(config))
          reported == WriteFile(WriteFile(st.fs, TrajFile(wd),
                                          Trajectory(wd, frames)),
                                LogFile(wd), LogOf(wd))
          stepped == [st.sim EXCEPT !.currentStep = @ + executed]
          a == analysis_length(reported, st.pdb_file, TrajFile(wd))
          with_cm == WriteFile(reported, ContactMapFile(wd),
                               ArrayOf("contact_map", wd, a.len))
          with_both == WriteFile(with_cm, RmsdFile(wd),
                                 ArrayOf("rmsd", wd, a.len))
          res(files, e) == [sim |-> stepped, fs |-> files, err |-> e,
                            steps |-> executed, frames |-> frames]
      IN  IF outcome = "step_fail" THEN res(reported, "OpenMMException")
          ELSE IF a.err # "none" THEN res(reported, a.err)
          ELSE IF outcome = "analyze_fail" THEN res(reported, "AnalysisError")
          ELSE IF outcome = "save_contact_map_fail" THEN res(reported, "OSError")
          ELSE IF outcome = "save_rmsd_fail" THEN res(with_cm, "OSError")
          ELSE res(with_both, "none")

ContinueStart ==
    [kind |-> "Continue", pdb_file |-> NonePath, top_file |-> NonePath,
     sim_dir |-> -1, sim_frame |-> 0]
FromPDBStart(p, t) == [ContinueStart EXCEPT !.kind = "FromPDB", !.pdb_file = p,
                                            !.top_file = t]
FromRestartStart(d, k) == [ContinueStart EXCEPT !.kind = "FromRestart",
                                                !.sim_dir = d, !.sim_frame = k]

NoRun ==
    [ran |-> FALSE, start |-> ContinueStart, initErr |-> "none", err |-> "none",
     simBefore |-> NoneSim, simInit |-> NoneSim, pdbBefore |-> NonePath,
     topBefore |-> NonePath, initCreated |-> {}, steps |-> 0, frames |-> 0]

InputStructures == glob(InputFiles, InputDir, "pdb")
InputTopologies == glob(InputFiles, InputDir, "prmtop")
RestartFrames == {3, 5000}
StepsBeforeFailure == {1}

\* One invocation of run in a fresh working directory: initialize_run, and
\* when it returns, the rest of run under each outcome the environment can
\* produce.
Run(start) ==
    /\ \E st1 \in {initialize_run([sim |-> sim, pdb_file |-> pdb_file,
                                   top_file |-> top_file, fs |-> fs,
                                   err |-> "none"], start, workdir + 1)} :
        \E r \in IF st1.err # "none"
                 THEN {[sim |-> st1.sim, fs |-> st1.fs, err |-> st1.err,
                        steps |-> 0, frames |-> 0]}
                 ELSE {step_analyze_save(st1, workdir + 1, o, done) :
                          o \in Outcomes,
                          done \in {d \in StepsBeforeFailure : d < nsteps(config)}} :
            /\ workdir' = workdir + 1
            /\ sim' = r.sim
            /\ pdb_file' = st1.pdb_file
            /\ top_file' = st1.top_file
            /\ fs' = r.fs
            /\ last' = [ran |-> TRUE, start |-> start, initErr |-> st1.err,
                        err |-> r.err, simBefore |-> sim, simInit |-> st1.sim,
                        pdbBefore |-> pdb_file, topBefore |-> top_file,
                        initCreated |-> DOMAIN st1.fs \ DOMAIN fs,
                        steps |-> r.steps, frames |-> r.frames]
    /\ UNCHANGED <<config, traj, analysis>>

RunContinue ==
    /\ workdir < MaxRuns
    /\ Run(ContinueStart)

RunFromPDB ==
    /\ workdir < MaxRuns
    /\ \E p \in InputStructures, t \in InputTopologies \cup {NonePath} :
          Run(FromPDBStart(p, t))

RunFromRestart ==
    /\ workdir < MaxRuns
    /\ \E d \in 1..workdir, k \in RestartFrames :
          Run(FromRestartStart(d, k))

-----------------------------------------------------------------------------
(* analyze_simulation.  A frame is [positions, box]: the selected atoms'
   coordinates after alignment, on a line, and the length of the periodic
   box of that frame. *)

\* Number of frames of the trajectories analysed.
MaxFrames == 2

\* Bits of the integer type the contact indices are stored in.
IndexBits == 16

Atoms == 0..2
Coordinates == {0, 2}
Boxes == {3, 4}
Frames == [positions : [Atoms -> Coordinates], box : Boxes]
ref_positions == [a \in Atoms |-> a]

Abs(x) == IF x < 0 THEN -x ELSE x
Min(x, y) == IF x < y THEN x ELSE y

\* Distance of two coordinates under the minimum-image convention.
MinimumImage(x, y, box) == Min(Abs(x - y) % box, box - (Abs(x - y) % box))

\* distances.contact_matrix(positions, cutoff, box=box, returntype="sparse"):
\* the symmetric boolean matrix of the pairs closer than the cutoff, every
\* atom being in contact with itself; here the set of its True coordinates.
contact_matrix(positions, cutoff, box) ==
    {<<i, j>> \in Atoms \X Atoms :
        i = j \/ MinimumImage(positions[i], positions[j], box) < cutoff}

RowMajorLess(p, q) == p[1] < q[1] \/ (p[1] = q[1] /\ p[2] < q[2])

\* tocoo keeping one coordinate per unordered pair (the upper triangle).
RECURSIVE tocoo_upper_triangle(_)
tocoo_upper_triangle(cm) ==
    LET upper == {p \in cm : p[1] <= p[2]}
    IN  IF upper = {} THEN <<>>
        ELSE LET first == CHOOSE p \in upper :
                              \A q \in upper \ {p} : RowMajorLess(p, q)
             IN  <<first>> \o tocoo_upper_triangle(upper \ {first})

\* cm.tocoo(): the non-zero coordinates of the matrix, in row-major order.
RECURSIVE tocoo(_)
tocoo(cm) ==
    IF cm = {} THEN <<>>
    ELSE LET first == CHOOSE p \in cm : \A q \in cm \ {p} : RowMajorLess(p, q)
         IN  <<first>> \o tocoo(cm \ {first})

\* astype("int16"): two's-complement wrap into the 16-bit range.
astype_int16(x) ==
    ((x + 2 ^ (IndexBits - 1)) % (2 ^ IndexBits)) - 2 ^ (IndexBits - 1)

\* rms.rmsd(positions, ref_positions, center=True, superposition=True),
\* left uninterpreted.
rmsd(positions, ref) == [positions |-> positions, ref |-> ref]

\* coo.row and coo.col as int16, and their concatenation
\* np.concatenate((rows, cols)): the row block, then the column block.
contact_map_entry(coo) ==
    [i \in 1..Len(coo) |-> astype_int16(coo[i][1])]
    \o [i \in 1..Len(coo) |-> astype_int16(coo[i][2])]

\* analyze_simulation: the box is read once, before the loop over the
\* frames (the trajectory stands at its first frame after the alignment
\* pass), and every frame's contact matrix is computed with it.
analyze_simulation(frames, cutoff) ==
    LET box == IF frames = <<>> THEN 0 ELSE frames[1].box
    IN  [contact_maps |->
             [f \in 1..Len(frames) |->
                 contact_map_entry(
                     tocoo(contact_matrix(frames[f].positions, cutoff, box)))],
         rmsds |-> [f \in 1..Len(frames) |->
                       rmsd(frames[f].positions, ref_positions)],
         boxes |-> [f \in 1..Len(frames) |-> box]]

NoAnalysis == [done |-> FALSE, contact_maps |-> <<>>, rmsds |-> <<>>,
               boxes |-> <<>>]

Analyze ==
    /\ ~analysis.done
    /\ traj # <<>>
    /\ \E r \in {analyze_simulation(traj, config.cutoff_angstrom)} :
         analysis' = [done |-> TRUE, contact_maps |-> r.contact_maps,
                      rmsds |-> r.rmsds, boxes |-> r.boxes]
    /\ UNCHANGED <<config, sim, pdb_file, top_file, fs, workdir, last, traj>>

-----------------------------------------------------------------------------
(* Specifications *)

Init ==
    /\ config \in Settings
    /\ sim = NoneSim
    /\ pdb_file = NonePath
    /\ top_file = NonePath
    /\ fs = InputFiles
    /\ workdir = 0
    /\ last = NoRun
    /\ traj = <<>>
    /\ analysis = NoAnalysis

Next == RunContinue \/ RunFromPDB \/ RunFromRestart

\* The manager under repeated runs.
Spec == Init /\ [][Next]_vars

AnalyzeInit ==
    /\ config = [solvent_type |-> "implicit",
                 explicit_barostat |-> DefaultBarostat,
                 timing |-> ShortTiming, cutoff_angstrom |-> 2]
    /\ sim = NoneSim
    /\ pdb_file = NonePath
    /\ top_file = NonePath
    /\ fs = InputFiles
    /\ workdir = 0
    /\ last = NoRun
    /\ traj \in UNION {[1..n -> Frames] : n \in 1..MaxFrames}
    /\ analysis = NoAnalysis

AnalyzeNext == Analyze

\* analyze_simulation applied to every trajectory within the bounds.
SpecAnalyze == AnalyzeInit /\ [][AnalyzeNext]_vars

-----------------------------------------------------------------------------
(* Properties *)

Ran(kind) == last.ran /\ last.start.kind = kind
BuiltThisRun(s) == IsEngine(s) /\ s.id = workdir

\* C1: after initialize_run, whether it returned or raised, the engine slot
\* holds what it held before the call or an engine built by this call.
C1_SlotUnchangedOrFresh ==
    last.ran => (last.simInit = last.simBefore \/ BuiltThisRun(last.simInit))

\* C2: initialize_run with Continue on a manager that has never cached an
\* engine raises the lifecycle-misuse error (RuntimeError), leaves the slot
\* empty and the run executes no step.
C2_ContinueWithoutEngineFails ==
    (Ran("Continue") /\ last.simBefore.state = "None")
        => /\ last.initErr = "RuntimeError"
           /\ last.err = "RuntimeError"
           /\ last.simInit = NoneSim
           /\ sim = NoneSim
           /\ last.steps = 0
           /\ ~Exists(fs, TrajFile(workdir))

\* C2 witness: Continue was issued with no engine cached, after an earlier
\* run had already failed to build one.
C2_Witness ==
    /\ Ran("Continue")
    /\ last.simBefore.state = "None"
    /\ workdir > 1
    /\ last.pdbBefore # NonePath

CopyOf(p, q) ==
    IF q = NonePath THEN p = NonePath
    ELSE /\ p = Path(workdir, q.name)
         /\ Exists(fs, p)
         /\ ContentAt(fs, p) = ContentAt(fs, q)

C4_ArtifactsBothOrNeither ==
    last.ran =>
        /\ last.err = "none" => /\ Exists(fs, ContactMapFile(workdir))
                                /\ Exists(fs, RmsdFile(workdir))
        /\ last.err # "none" => /\ ~Exists(fs, ContactMapFile(workdir))
                                /\ ~Exists(fs, RmsdFile(workdir))

InScenario == last.ran /\ config.timing = ScenarioTiming /\ last.err = "none"

StepsFramesLengths(n) ==
    /\ last.steps = n
    /\ ContentAt(fs, TrajFile(workdir)).n = n
    /\ ContentAt(fs, ContactMapFile(workdir)).n = n
    /\ ContentAt(fs, RmsdFile(workdir)).n = n

\* C5 as stated: with dt 0.002 ps, report interval 0.002 ps and length
\* 0.01 ns a run executes 5 steps, reports 5 frames and saves two arrays of
\* length 5.
C5_FiveSteps == InScenario => StepsFramesLengths(5)

\* C5 amended: with dt 0.002 ps, report interval 0.002 ps and length 0.01 ns
\* a run executes 5000 steps (0.01 ns is 10 ps, divided by 0.002 ps), reports
\* 5000 frames (one every 0.002 / 0.002 = 1 step) and saves two arrays of
\* length 5000.
C5_FiveThousandSteps ==
    InScenario => /\ StepsFramesLengths(5000)
                  /\ report_steps(config) = 1

\* C5 witness: a run with the scenario's timing succeeded.
C5_Witness == InScenario /\ last.steps > 0

\* C6: with explicit solvation and an unsupported barostat name in the
\* settings, a run that configures an engine fails in initialize_run and
\* executes no step.
C6_BogusBarostatFailsConfiguration ==
    ( /\ last.ran
      /\ last.start.kind # "Continue"
      /\ config.solvent_type = "explicit"
      /\ config.explicit_barostat \notin SupportedBarostats )
        => (last.initErr # "none" /\ last.steps = 0)

\* C7: the box handed to contact detection for frame f is frame f's box.
C7_BoxOfEachFrame ==
    analysis.done =>
        \A f \in 1..Len(traj) : analysis.boxes[f] = traj[f].box

\* The (row, column) pairs stored in a contact-map entry: the first half of
\* the entry holds the rows, the second half the columns.
StoredPairs(entry) ==
    {<<entry[i], entry[i + (Len(entry) \div 2)]>> : i \in 1..(Len(entry) \div 2)}

\* C8 as stated: if (i, j) with i # j is stored in an entry, (j, i) is not.
C8_EachUnorderedPairOnce ==
    analysis.done =>
        \A f \in 1..Len(analysis.contact_maps) :
            \A p \in StoredPairs(analysis.contact_maps[f]) :
                p[1] # p[2] =>
                    <<p[2], p[1]>> \notin StoredPairs(analysis.contact_maps[f])

\* C8 amended: the stored pairs of an entry are symmetric (if (i, j) is
\* stored so is (j, i)), and no ordered pair is stored twice.
C8_StoredPairsSymmetric ==
    analysis.done =>
        \A f \in 1..Len(analysis.contact_maps) :
            /\ \A p \in StoredPairs(analysis.contact_maps[f]) :
                  <<p[2], p[1]>> \in StoredPairs(analysis.contact_maps[f])
            /\ Cardinality(StoredPairs(analysis.contact_maps[f]))
                  = Len(analysis.contact_maps[f]) \div 2

\* C8 witness: an entry stores a contact between two different atoms.
C8_Witness ==
    /\ analysis.done
    /\ \E f \in 1..Len(analysis.contact_maps) :
          \E p \in StoredPairs(analysis.contact_maps[f]) : p[1] # p[2]

RECURSIVE DigitsValue(_)
DigitsValue(digits) ==
    IF digits = <<>> THEN 0
    ELSE DecimalBase * DigitsValue(SubSeq(digits, 1, Len(digits) - 1))
         + digits[Len(digits)]

\* The source directory holds a structure file and a trajectory with more
\* than sim_frame frames.
RestartInRange ==
    /\ \E p \in DOMAIN fs : p.dir = last.start.sim_dir /\ p.name.ext = "pdb"
    /\ \E p \in DOMAIN fs : /\ p.dir = last.start.sim_dir
                            /\ p.name.ext = "dcd"
                            /\ last.start.sim_frame < fs[p].n

\* C9: FromRestart with a frame inside the source trajectory writes, in the
\* working directory, <source directory name>_frame<6 digits>.pdb holding
\* that frame; the engine cached afterwards was built by this call from the
\* written file, not from the source directory's structure file; and an
\* engine is cached whenever the call returns.
C9_RestartUsesExtractedFrame ==
    (Ran("FromRestart") /\ RestartInRange) =>
        \E p \in DOMAIN fs :
            /\ p.dir = workdir
            /\ p.name.base = "_frame"
            /\ p.name.run = last.start.sim_dir
            /\ p.name.ext = "pdb"
            /\ Len(p.name.digits) = FrameDigits
            /\ DigitsValue(p.name.digits) = last.start.sim_frame
            /\ fs[p] = FrameStructure(last.start.sim_dir, last.start.sim_frame)
            /\ p \in last.initCreated
            /\ pdb_file = p
            /\ last.initErr = "none" => IsEngine(last.simInit)
            /\ IsEngine(last.simInit) =>
                  /\ BuiltThisRun(last.simInit)
                  /\ last.simInit.pdb_path = p
                  /\ last.simInit.pdb = fs[p]
                  /\ last.simInit.pdb_path.dir # last.start.sim_dir

\* C9 witness: a restart from frame 3 returned with an engine cached.
C9_Witness ==
    /\ Ran("FromRestart")
    /\ RestartInRange
    /\ last.start.sim_frame = 3
    /\ last.initErr = "none"
    /\ IsEngine(sim)

\* C10: between calls, whenever an engine is cached, the cached structure
\* and topology paths name files holding what that engine was built from.
C10_PathsMatchCachedEngine ==
    IsEngine(sim) =>
        /\ Exists(fs, pdb_file)
        /\ ContentAt(fs, pdb_file) = sim.pdb
        /\ ContentAt(fs, top_file) = sim.top

====
